---- MODULE Spec2Model ----
(***************************************************************************)
(* Model of jitokim/yeyak: the Fetcher (src/fetch_reservations.py) and the *)
(* truncation helper of the Composer (src/compose_email.py).               *)
(*                                                                         *)
(* Python strings are sequences of one-character tokens.  TLA+ strings are *)
(* ASCII, so each Hangul syllable of the source's literals is written as   *)
(* its romanisation ("gang" for U+AC15) and the ellipsis U+2026 as "...":  *)
(* one token is one Python character.                                      *)
(*                                                                         *)
(* A JSON value is a record [t, s, n]: t is "null", "str" or "num", s the  *)
(* characters of a string, n the value of a number.  A JSON object (dict)  *)
(* is a function from the keys it has to JSON values.                      *)
(***************************************************************************)
EXTENDS Integers, Sequences, FiniteSets, TLC

VARIABLES
    pc,           \* position of main(): "start", "get", "sleep", "process", "write", "done"
    api_key,      \* TRUE iff SEOUL_API_KEY is set and non-blank
    p,            \* page being fetched (1-based)
    attempt,      \* fetch_page: loop variable attempt
    backoff,      \* fetch_page: backoff
    last_exc,     \* fetch_page: last_exc is not None
    total_count,  \* main: total_count of page 1
    all_rows,     \* main: all_rows
    gets,         \* outcomes of the session.get calls of the current fetch_page call
    sleeps,       \* arguments of the time.sleep calls of the current fetch_page call
    fetched,      \* pages for which fetch_page was called, in call order
    served,       \* rows lists extract_payload returned, one per fetched page
    declared,     \* total count extract_payload returned for page 1
    files,        \* output files written so far: sequence of [name, data]
    exit_code,    \* process exit status, -1 while running
    rows_in,      \* filter_rows: argument rows
    v12,          \* filter_rows: result v12
    v123,         \* filter_rows: result v123
    s_in,         \* trunc: argument s
    n_in,         \* trunc: argument n
    t_out,        \* trunc: result
    fpc           \* position of the pure-function harnesses: "in", "out"

vars == <<pc, api_key, p, attempt, backoff, last_exc, total_count, all_rows,
          gets, sleeps, fetched, served, declared, files, exit_code,
          rows_in, v12, v123, s_in, n_in, t_out, fpc>>

fetcherVars == <<pc, api_key, p, attempt, backoff, last_exc, total_count, all_rows,
                 gets, sleeps, fetched, served, declared, files, exit_code>>
filterVars == <<rows_in, v12, v123>>
truncVars == <<s_in, n_in, t_out>>

(***************************************************************************)
(* Bounds of the model.                                                    *)
(***************************************************************************)
MaxPage == 3          \* pages the server is asked for
MaxFilterLen == 2     \* records given to filter_rows
MaxStrLen == 4        \* characters of the string given to trunc
MaxLimit == 4         \* limit given to trunc

(***************************************************************************)
(* Program constants.                                                      *)
(***************************************************************************)
PAGE_SIZE == 1000
MAX_RETRIES == 3

COMPACT_FIELDS ==
    <<"SVCID", "SVCNM", "SVCSTATNM", "AREANM", "USETGTINFO", "SVCURL",
      "RCPTBGNDT", "RCPTENDDT", "SVCOPNBGNDT", "SVCOPNENDDT", "PLACENM">>

CSV_COLS ==
    <<"SVCID", "SVCNM", "SVCSTATNM", "AREANM", "USETGTINFO", "SVCURL",
      "RCPTBGNDT", "RCPTENDDT">>

Range(f) == {f[i] : i \in DOMAIN f}

(***************************************************************************)
(* JSON values and the Python idioms applied to them.                      *)
(***************************************************************************)
Null == [t |-> "null", s |-> <<>>, n |-> 0]
Str(cs) == [t |-> "str", s |-> cs, n |-> 0]
Num(k) == [t |-> "num", s |-> <<>>, n |-> k]

\* d.get(k): the value under k, None when the key is missing
Get(d, k) == IF k \in DOMAIN d THEN d[k] ELSE Null

\* bool(v)
Truthy(v) ==
    CASE v.t = "null" -> FALSE
      [] v.t = "str" -> v.s # <<>>
      [] v.t = "num" -> v.n # 0

\* v or ""
OrEmpty(v) == IF Truthy(v) THEN v ELSE Str(<<>>)

DigitChars == <<"0", "1", "2", "3", "4", "5", "6", "7", "8", "9">>

RECURSIVE NatToStr(_)
NatToStr(k) ==
    IF k < 10 THEN <<DigitChars[k + 1]>>
    ELSE NatToStr(k \div 10) \o <<DigitChars[(k % 10) + 1]>>

\* str(v), as a sequence of characters
PyStr(v) ==
    CASE v.t = "null" -> <<"N", "o", "n", "e">>
      [] v.t = "str" -> v.s
      [] v.t = "num" -> IF v.n < 0 THEN <<"-">> \o NatToStr(-v.n) ELSE NatToStr(v.n)

Digits == {"0", "1", "2", "3", "4", "5", "6", "7", "8", "9"}
IsDigit(c) == c \in Digits
DigitVal(c) ==
    CASE c = "0" -> 0 [] c = "1" -> 1 [] c = "2" -> 2 [] c = "3" -> 3 [] c = "4" -> 4
      [] c = "5" -> 5 [] c = "6" -> 6 [] c = "7" -> 7 [] c = "8" -> 8 [] c = "9" -> 9

RECURSIVE DigitsVal(_)
DigitsVal(cs) ==
    IF cs = <<>> THEN 0
    ELSE 10 * DigitsVal(SubSeq(cs, 1, Len(cs) - 1)) + DigitVal(cs[Len(cs)])

AllDigits(cs) == cs # <<>> /\ \A i \in 1..Len(cs) : IsDigit(cs[i])

RECURSIVE LStrip(_)
LStrip(cs) == IF cs # <<>> /\ cs[1] = " " THEN LStrip(Tail(cs)) ELSE cs

RECURSIVE RStrip(_)
RStrip(cs) ==
    IF cs # <<>> /\ cs[Len(cs)] = " " THEN RStrip(SubSeq(cs, 1, Len(cs) - 1)) ELSE cs

\* s.strip()
Strip(cs) == RStrip(LStrip(cs))

(***************************************************************************)
(* parse_dt and sort_key (fetch_reservations.py).                          *)
(*                                                                         *)
(* A datetime is <<year, month, day, hour, minute, second, microsecond>>,  *)
(* compared lexicographically.  datetime.strptime is the library's; it is  *)
(* modelled on zero-padded fields (%Y four digits, %m %d %H %M %S two,     *)
(* %f one to six) with every other format character matched literally,     *)
(* which is what it does on the timestamps the model feeds it.             *)
(***************************************************************************)
NoDt == <<0, 0, 0, 0, 0, 0, 0>>
DT_MAX == <<9999, 12, 31, 23, 59, 59, 999999>>

\* results of parse_dt: None, a datetime, or an AttributeError raised by s.strip()
PNone == [k |-> "none", dt |-> NoDt]
PDt(d) == [k |-> "dt", dt |-> d]
PRaise == [k |-> "raise", dt |-> NoDt]

IsLeap(y) == (y % 4 = 0 /\ y % 100 # 0) \/ y % 400 = 0

DaysIn(y, m) ==
    CASE m \in {1, 3, 5, 7, 8, 10, 12} -> 31
      [] m \in {4, 6, 9, 11} -> 30
      [] OTHER -> IF IsLeap(y) THEN 29 ELSE 28

FieldIndex(c) ==
    CASE c = "Y" -> 1 [] c = "m" -> 2 [] c = "d" -> 3 [] c = "H" -> 4
      [] c = "M" -> 5 [] c = "S" -> 6 [] c = "f" -> 7

Pow10(k) == CASE k = 0 -> 1 [] k = 1 -> 10 [] k = 2 -> 100 [] k = 3 -> 1000
              [] k = 4 -> 10000 [] k = 5 -> 100000 [] OTHER -> 1000000

\* The formats of parse_dt, a directive %X written as <<"%", "X">>.
FMTS ==
    << <<"%","Y","-","%","m","-","%","d"," ","%","H",":","%","M",":","%","S",".","%","f">>,
       <<"%","Y","-","%","m","-","%","d"," ","%","H",":","%","M",":","%","S">>,
       <<"%","Y","-","%","m","-","%","d">>,
       <<"%","Y","%","m","%","d","%","H","%","M","%","S">>,
       <<"%","Y","%","m","%","d">> >>

\* number of digits of cs from position j on, at most k
RECURSIVE DigitRun(_, _, _)
DigitRun(cs, j, k) ==
    IF k = 0 \/ j > Len(cs) \/ ~IsDigit(cs[j]) THEN 0
    ELSE 1 + DigitRun(cs, j + 1, k - 1)

\* the number written by the w digits of cs that end at position j
RECURSIVE NumberAt(_, _, _)
NumberAt(cs, j, w) ==
    IF w = 0 THEN 0 ELSE 10 * NumberAt(cs, j - 1, w - 1) + DigitVal(cs[j])

\* Match cs from position j against fmt from position i, collecting the fields
\* in acc; <<>> when it does not match.
RECURSIVE Match(_, _, _, _, _)
Match(fmt, i, cs, j, acc) ==
    IF i > Len(fmt) THEN (IF j > Len(cs) THEN acc ELSE <<>>)
    ELSE IF fmt[i] = "%" THEN
        LET d == fmt[i + 1]
            w == IF d = "f" THEN DigitRun(cs, j, 6) ELSE IF d = "Y" THEN 4 ELSE 2
        IN  IF w = 0 \/ DigitRun(cs, j, w) < w THEN <<>>
            ELSE LET raw == NumberAt(cs, j + w - 1, w)
                     val == IF d = "f" THEN raw * Pow10(6 - w) ELSE raw
                 IN  Match(fmt, i + 2, cs, j + w, [acc EXCEPT ![FieldIndex(d)] = val])
    ELSE IF j <= Len(cs) /\ cs[j] = fmt[i] THEN Match(fmt, i + 1, cs, j + 1, acc)
    ELSE <<>>

ValidDt(d) ==
    /\ d[1] \in 1..9999
    /\ d[2] \in 1..12
    /\ d[3] \in 1..DaysIn(d[1], d[2])
    /\ d[4] \in 0..23
    /\ d[5] \in 0..59
    /\ d[6] \in 0..59

\* datetime.strptime(cs, fmt): a datetime, or <<>> for ValueError
Strptime(cs, fmt) ==
    LET m == Match(fmt, 1, cs, 1, <<1900, 1, 1, 0, 0, 0, 0>>)
    IN  IF m # <<>> /\ ValidDt(m) THEN m ELSE <<>>

\* the first format of fmts[i..] that parses cs
RECURSIVE TryFormats(_, _)
TryFormats(cs, i) ==
    IF i > Len(FMTS) THEN PNone
    ELSE LET r == Strptime(cs, FMTS[i])
         IN  IF r # <<>> THEN PDt(r) ELSE TryFormats(cs, i + 1)

\* parse_dt(v) for the Python value v it is handed
parse_dt(v) ==
    IF ~Truthy(v) THEN PNone
    ELSE IF v.t # "str" THEN PRaise
    ELSE TryFormats(Strip(v.s), 1)

\* sort_key(row) of fetch_reservations.py: a parse result, never "none"
sort_key(row) ==
    LET a == parse_dt(OrEmpty(Get(row, "RCPTBGNDT")))
    IN  IF a.k = "raise" THEN PRaise
        ELSE IF a.k = "dt" THEN a
        ELSE LET b == parse_dt(OrEmpty(Get(row, "SVCOPNBGNDT")))
             IN  IF b.k = "raise" THEN PRaise
                 ELSE IF b.k = "dt" THEN b
                 ELSE PDt(DT_MAX)

RECURSIVE DtLess(_, _)
DtLess(a, b) ==
    IF a = <<>> THEN FALSE
    ELSE IF a[1] # b[1] THEN a[1] < b[1]
    ELSE DtLess(Tail(a), Tail(b))

\* sorted() computes the key of each element once: the rows with their keys
RECURSIVE Keyed(_)
Keyed(rows) ==
    IF rows = <<>> THEN <<>>
    ELSE <<[key |-> sort_key(rows[1]).dt, row |-> rows[1]]>> \o Keyed(Tail(rows))

\* insert e after every element whose key is not greater: equal keys keep their order
RECURSIVE Insert(_, _)
Insert(sorted, e) ==
    IF sorted = <<>> THEN <<e>>
    ELSE IF DtLess(e.key, sorted[1].key) THEN <<e>> \o sorted
    ELSE <<sorted[1]>> \o Insert(Tail(sorted), e)

RECURSIVE SortKeyed(_)
SortKeyed(es) ==
    IF es = <<>> THEN <<>>
    ELSE Insert(SortKeyed(SubSeq(es, 1, Len(es) - 1)), es[Len(es)])

\* sorted(rows, key=sort_key) when no key raises: a stable ascending sort
RECURSIVE Unkeyed(_)
Unkeyed(es) == IF es = <<>> THEN <<>> ELSE <<es[1].row>> \o Unkeyed(Tail(es))

Sorted(rows) == Unkeyed(SortKeyed(Keyed(rows)))

\* sorted(rows, key=sort_key) raises iff sort_key raises on some row
SortRaises(rows) == \E i \in 1..Len(rows) : sort_key(rows[i]).k = "raise"

(***************************************************************************)
(* contains_any, filter_rows, Row.from_dict / project_compact and the CSV  *)
(* row of write_csv_summary (fetch_reservations.py).                       *)
(***************************************************************************)
areas == {<<"gang", "nam", "gu">>, <<"seo", "cho", "gu">>, <<"song", "pa", "gu">>}
statuses == {<<"jeop", "su", "jung">>, <<"an", "nae", "jung">>}
needles == << <<"yu", "a">>, <<"je", "han", "eops", "eum">>, <<"ga", "jok">> >>

\* n in s for Python strings: n occurs in s as a contiguous run
IsSubstring(n, s) ==
    \E i \in 0..(Len(s) - Len(n)) : SubSeq(s, i + 1, i + Len(n)) = n

\* contains_any(haystack, ns); haystack is a str here, so "haystack or ''" is haystack
contains_any(haystack, ns) == \E i \in 1..Len(ns) : IsSubstring(ns[i], haystack)

\* cond12 with "or" for "and"
cond12_either(r) ==
    LET areanm == PyStr(OrEmpty(Get(r, "AREANM")))
        svcstat == PyStr(OrEmpty(Get(r, "SVCSTATNM")))
    IN  areanm \in areas \/ svcstat \in statuses

\* the body of filter_rows' loop for one record: does r go to v12, to v123
cond12(r) ==
    LET areanm == PyStr(OrEmpty(Get(r, "AREANM")))
        svcstat == PyStr(OrEmpty(Get(r, "SVCSTATNM")))
    IN  areanm \in areas /\ svcstat \in statuses

\* cond123 with the usage-target test outside the "if cond1 and cond2"
cond123_unnested(r) ==
    LET usetgt == PyStr(OrEmpty(Get(r, "USETGTINFO")))
    IN  contains_any(usetgt, needles)

cond123(r) ==
    LET usetgt == PyStr(OrEmpty(Get(r, "USETGTINFO")))
    IN  cond12(r) /\ contains_any(usetgt, needles)

RECURSIVE SelectRows(_, _)
SelectRows(rows, i) ==
    IF i > Len(rows) THEN [v12 |-> <<>>, v123 |-> <<>>]
    ELSE LET rest == SelectRows(rows, i + 1)
             r == rows[i]
         IN  [v12 |-> IF cond12(r) THEN <<r>> \o rest.v12 ELSE rest.v12,
              v123 |-> IF cond123(r) THEN <<r>> \o rest.v123 ELSE rest.v123]

\* filter_rows(rows): [v12, v123]
filter_rows(rows) == SelectRows(rows, 1)

\* Row.from_dict(d).to_compact_dict()
from_dict(d) ==
    [k \in Range(COMPACT_FIELDS) |-> Str(PyStr(OrEmpty(Get(d, k))))]

project_compact(rows) == [i \in 1..Len(rows) |-> from_dict(rows[i])]

\* the dict write_csv_summary hands to writer.writerow for r
csv_row(r) == [c \in Range(CSV_COLS) |-> Str(PyStr(OrEmpty(Get(r, c))))]

write_csv_summary(rows) == [i \in 1..Len(rows) |-> csv_row(rows[i])]

(***************************************************************************)
(* extract_payload (fetch_reservations.py).  A response body that parsed   *)
(* is [obj, total, isList, row]: obj says whether the body is an object    *)
(* holding an object under "ListPublicReservationEducation", total is its  *)
(* list_total_count (Null when absent), isList whether its "row" is an     *)
(* array, row the array's entries, each [isDict, d].                       *)
(***************************************************************************)
\* int(total): [ok, n]; the strings int accepts are an optional sign and digits,
\* surrounding whitespace ignored
PyInt(v) ==
    CASE v.t = "num" -> [ok |-> TRUE, n |-> v.n]
      [] v.t = "null" -> [ok |-> FALSE, n |-> 0]
      [] v.t = "str" ->
            LET cs == Strip(v.s)
                neg == cs # <<>> /\ cs[1] = "-"
                body == IF cs # <<>> /\ cs[1] \in {"-", "+"} THEN Tail(cs) ELSE cs
            IN  IF AllDigits(body)
                THEN [ok |-> TRUE, n |-> IF neg THEN -DigitsVal(body) ELSE DigitsVal(body)]
                ELSE [ok |-> FALSE, n |-> 0]

RECURSIVE DictsOf(_)
DictsOf(entries) ==
    IF entries = <<>> THEN <<>>
    ELSE IF entries[1].isDict THEN <<entries[1].d>> \o DictsOf(Tail(entries))
    ELSE DictsOf(Tail(entries))

\* extract_payload(data): [total_count, rows]
extract_payload(data) ==
    IF ~data.obj THEN [total_count |-> 0, rows |-> <<>>]
    ELSE [total_count |-> IF PyInt(data.total).ok THEN PyInt(data.total).n ELSE 0,
          rows |-> IF data.isList THEN DictsOf(data.row) ELSE <<>>]

(***************************************************************************)
(* trunc (compose_email.py).                                               *)
(***************************************************************************)
Ellipsis == "..."

Max(a, b) == IF a >= b THEN a ELSE b
Min(a, b) == IF a <= b THEN a ELSE b

\* s[:k] for k >= 0
Prefix(cs, k) == SubSeq(cs, 1, Min(k, Len(cs)))

\* trunc keeping n characters before the ellipsis
trunc_keeps_n(s, n) ==
    LET s1 == IF s # <<>> THEN s ELSE <<"-">>
    IN  IF Len(s1) <= n THEN s1 ELSE Prefix(s1, Max(0, n)) \o <<Ellipsis>>

trunc(s, n) ==
    LET s1 == IF s # <<>> THEN s ELSE <<"-">>
    IN  IF Len(s1) <= n THEN s1 ELSE Prefix(s1, Max(0, n - 1)) \o <<Ellipsis>>

(***************************************************************************)
(* What the server can answer.                                             *)
(***************************************************************************)
Gangnam == <<"gang", "nam", "gu">>
Mapo == <<"ma", "po", "gu">>
Jeopsujung == <<"jeop", "su", "jung">>
Magam == <<"ma", "gam">>
\* "yeong-yu-a mit ga-jok dae-sang": holds the needles "yu a" and "ga jok"
ForFamilies == <<"yeong", "yu", "a", " ", "mit", " ", "ga", "jok", " ", "dae", "sang">>
Adults == <<"seong", "in">>

\* a well-formed record that passes both filters
RowOk ==
    [AREANM |-> Str(Gangnam), SVCSTATNM |-> Str(Jeopsujung),
     USETGTINFO |-> Str(ForFamilies),
     RCPTBGNDT |-> Str(<<"2", "0", "2", "5", "-", "0", "8", "-", "2", "5">>)]

\* garbage reception timestamp, operation timestamp in the compact form, no area
RowFallback ==
    [SVCSTATNM |-> Str(Jeopsujung), USETGTINFO |-> Null,
     RCPTBGNDT |-> Str(<<"s", "o", "o", "n">>),
     SVCOPNBGNDT |-> Str(<<"2", "0", "2", "5", "0", "1", "3", "1">>)]

\* reception timestamp sent as a JSON number
RowNum ==
    [AREANM |-> Str(Gangnam), SVCSTATNM |-> Str(Jeopsujung), RCPTBGNDT |-> Num(20250825)]

EmptyDict == [k \in {} |-> Null]

EntryOf(r) == [isDict |-> TRUE, d |-> r]
\* an entry of the row array that is not an object
Junk == [isDict |-> FALSE, d |-> EmptyDict]

\* the row arrays of the responses: empty, without any object, one record,
\* two records out of date order, a record with a numeric timestamp, records
\* around a non-object
RowArrays ==
    { <<>>,
      <<Junk>>,
      <<EntryOf(RowOk)>>,
      <<EntryOf(RowOk), EntryOf(RowFallback)>>,
      <<EntryOf(RowNum)>>,
      <<EntryOf(RowFallback), Junk, EntryOf(RowOk)>> }

\* the total counts page 1 can declare when it declares a positive one
PositiveTotals ==
    {(k - 1) * PAGE_SIZE + 1 : k \in 1..MaxPage} \cup {k * PAGE_SIZE : k \in 1..MaxPage}
        \cup {t \in {2500} : t <= MaxPage * PAGE_SIZE}

FirstTotals ==
    {Null, Str(<<"n", "/", "a">>), Num(0), Num(-1), Str(<<"2", "0", "0", "0">>)}
        \cup {Num(t) : t \in PositiveTotals}

\* list_total_count of the pages after the first: absent, or other than page 1's
LaterTotals == {Null, Num(1), Num(PAGE_SIZE * (MaxPage + 1))}

TotalsOf(page) == IF page = 1 THEN FirstTotals ELSE LaterTotals

\* the bodies that parse as JSON, for the given page
Responses(page) ==
    {[obj |-> FALSE, total |-> Null, isList |-> FALSE, row |-> <<>>]}
        \cup {[obj |-> TRUE, total |-> t, isList |-> FALSE, row |-> <<>>] : t \in TotalsOf(page)}
        \cup {[obj |-> TRUE, total |-> t, isList |-> TRUE, row |-> b] :
                 t \in TotalsOf(page), b \in RowArrays}

(***************************************************************************)
(* main and fetch_page (fetch_reservations.py) as a state machine.  A step *)
(* is one call the program makes to the outside (session.get, time.sleep,  *)
(* a file write) together with the code that runs up to the next call.     *)
(***************************************************************************)
\* total_pages rounding down
total_pages_floor(tc) == tc \div PAGE_SIZE

\* total_pages of main, computed from total_count > 0
total_pages(tc) == (tc + PAGE_SIZE - 1) \div PAGE_SIZE

FetcherIdle ==
    /\ pc = "idle" /\ api_key = FALSE /\ p = 0 /\ attempt = 0 /\ backoff = 0
    /\ last_exc = FALSE /\ total_count = 0 /\ all_rows = <<>> /\ gets = <<>>
    /\ sleeps = <<>> /\ fetched = <<>> /\ served = <<>> /\ declared = 0 /\ files = <<>>
    /\ exit_code = -1

FilterIdle == rows_in = <<>> /\ v12 = <<>> /\ v123 = <<>>
TruncIdle == s_in = <<>> /\ n_in = 0 /\ t_out = <<>>

Init ==
    /\ pc = "start" /\ api_key \in BOOLEAN /\ p = 0 /\ attempt = 0 /\ backoff = 0
    /\ last_exc = FALSE /\ total_count = 0 /\ all_rows = <<>> /\ gets = <<>>
    /\ sleeps = <<>> /\ fetched = <<>> /\ served = <<>> /\ declared = 0 /\ files = <<>>
    /\ exit_code = -1
    /\ FilterIdle /\ TruncIdle /\ fpc = "idle"

\* main calls fetch_page for the given page: the locals of fetch_page are fresh
CallFetchPage(page) ==
    /\ pc' = "get"
    /\ p' = page
    /\ attempt' = 1
    /\ backoff' = 1
    /\ last_exc' = FALSE
    /\ gets' = <<>>
    /\ sleeps' = <<>>
    /\ fetched' = Append(fetched, page)

\* main returns code: the process exits
Exit(code) == pc' = "done" /\ exit_code' = code

\* main up to the first request: the credential check
Start ==
    /\ pc = "start"
    /\ IF ~api_key
       THEN /\ Exit(2)
            /\ UNCHANGED <<p, attempt, backoff, last_exc, gets, sleeps, fetched>>
       ELSE /\ CallFetchPage(1)
            /\ UNCHANGED exit_code
    /\ UNCHANGED <<api_key, total_count, all_rows, served, declared, files,
                   filterVars, truncVars, fpc>>

\* FetchFails with main's except clause leaving the loop instead of returning
FetchFailsBreaks ==
    /\ pc' = "process"
    /\ UNCHANGED <<p, attempt, backoff, sleeps, fetched, exit_code>>

\* fetch_page raises; main's except clause prints and returns 3
FetchFails ==
    /\ Exit(3)
    /\ UNCHANGED <<p, attempt, backoff, sleeps, fetched>>

\* RetryOrFail with the last attempt taken for one more than MAX_RETRIES
RetryOrFailOffByOne ==
    IF attempt > MAX_RETRIES
    THEN FetchFails
    ELSE /\ pc' = "sleep"
         /\ UNCHANGED <<p, attempt, backoff, sleeps, fetched, exit_code>>

\* after a retryable failure: give up on the last attempt, else go to sleep
RetryOrFail ==
    IF attempt = MAX_RETRIES
    THEN FetchFails
    ELSE /\ pc' = "sleep"
         /\ UNCHANGED <<p, attempt, backoff, sleeps, fetched, exit_code>>

\* session.get raises ConnectionError or Timeout
GetConnError ==
    /\ pc = "get" /\ p <= MaxPage
    /\ gets' = Append(gets, "conn")
    /\ last_exc' = TRUE
    /\ RetryOrFail
    /\ UNCHANGED <<api_key, total_count, all_rows, served, declared, files,
                   filterVars, truncVars, fpc>>

\* session.get answers 5xx
GetServerError ==
    /\ pc = "get" /\ p <= MaxPage
    /\ gets' = Append(gets, "5xx")
    /\ RetryOrFail
    /\ UNCHANGED <<api_key, last_exc, total_count, all_rows, served, declared, files,
                   filterVars, truncVars, fpc>>

\* session.get answers 2xx and resp.json() raises
GetParseError ==
    /\ pc = "get" /\ p <= MaxPage
    /\ gets' = Append(gets, "parse")
    /\ last_exc' = TRUE
    /\ RetryOrFail
    /\ UNCHANGED <<api_key, total_count, all_rows, served, declared, files,
                   filterVars, truncVars, fpc>>

\* GetOtherStatus with the status handled as a 5xx is
GetOtherStatusRetried ==
    /\ pc = "get" /\ p <= MaxPage
    /\ gets' = Append(gets, "other")
    /\ RetryOrFail
    /\ UNCHANGED <<api_key, last_exc, total_count, all_rows, served, declared, files,
                   filterVars, truncVars, fpc>>

\* session.get answers a status outside 2xx and 5xx
GetOtherStatus ==
    /\ pc = "get" /\ p <= MaxPage
    /\ gets' = Append(gets, "other")
    /\ FetchFails
    /\ UNCHANGED <<api_key, last_exc, total_count, all_rows, served, declared, files,
                   filterVars, truncVars, fpc>>

\* session.get raises an exception fetch_page does not catch
GetOtherException ==
    /\ pc = "get" /\ p <= MaxPage
    /\ gets' = Append(gets, "exc")
    /\ FetchFails
    /\ UNCHANGED <<api_key, last_exc, total_count, all_rows, served, declared, files,
                   filterVars, truncVars, fpc>>

\* time.sleep(backoff); backoff *= 2; the loop goes to the next attempt
Sleep ==
    /\ pc = "sleep"
    /\ sleeps' = Append(sleeps, backoff)
    /\ backoff' = backoff * 2
    /\ attempt' = attempt + 1
    /\ pc' = "get"
    /\ UNCHANGED <<api_key, p, last_exc, total_count, all_rows, gets, fetched, served,
                   declared, files, exit_code, filterVars, truncVars, fpc>>

\* main goes on to sort, filter and project: no further request
EndOfPages ==
    /\ pc' = "process"
    /\ gets' = Append(gets, "ok")
    /\ UNCHANGED <<p, attempt, backoff, last_exc, sleeps, fetched>>

\* the total count main goes by after extract_payload returned ex for page p:
\* "total_count, first_rows = ..." for page 1, "_, rows = ..." for the others
NextTotalCount(ex) == IF p = 1 THEN ex.total_count ELSE total_count

\* IsLastPage with the range loop used for every total count
IsLastPageAnyTotal(tc, page) == page >= total_pages(tc)

\* no page after this one: range(2, total_pages + 1) is exhausted; the
\* "while True" loop of a total count <= 0 never is
IsLastPage(tc, page) == tc > 0 /\ page >= total_pages(tc)

\* EndOfData without the break
EndOfDataNever(rows) == FALSE

\* "if not rows: break" of both loops
EndOfData(rows) == rows = <<>>

\* session.get answers 2xx with a body that parses: fetch_page returns it and main
\* runs up to its next fetch_page call or to the end of its loop
GetOk(data) ==
    /\ pc = "get" /\ p <= MaxPage
    /\ LET ex == extract_payload(data)
           tc == NextTotalCount(ex)
       IN  /\ served' = Append(served, ex.rows)
           /\ declared' = IF p = 1 THEN ex.total_count ELSE declared
           /\ total_count' = tc
           /\ IF p = 1
              THEN /\ all_rows' = ex.rows
                   /\ IF IsLastPage(tc, 1) THEN EndOfPages ELSE CallFetchPage(2)
              ELSE IF EndOfData(ex.rows)
                   THEN /\ all_rows' = all_rows
                        /\ EndOfPages
                   ELSE /\ all_rows' = all_rows \o ex.rows
                        /\ IF IsLastPage(tc, p) THEN EndOfPages ELSE CallFetchPage(p + 1)
    /\ UNCHANGED <<api_key, files, exit_code, filterVars, truncVars, fpc>>

FILE_NAMES ==
    <<"seoul_education_all.json", "seoul_education_v12.json",
      "seoul_education_v123.json", "seoul_education_summary.csv">>

\* the data main hands to its k-th write call
OutputData(k) ==
    LET all_rows_sorted == Sorted(all_rows)
        f == filter_rows(all_rows_sorted)
        v12_compact == project_compact(f.v12)
        v123_compact == project_compact(f.v123)
        v12_sorted_for_csv == Sorted(v12_compact)
    IN  CASE k = 1 -> all_rows_sorted
          [] k = 2 -> v12_compact
          [] k = 3 -> v123_compact
          [] k = 4 -> write_csv_summary(v12_sorted_for_csv)

\* sort, filter, project: sorted() lets an exception of sort_key escape main
Process ==
    /\ pc = "process"
    /\ IF SortRaises(all_rows)
       THEN Exit(1)
       ELSE pc' = "write" /\ UNCHANGED exit_code
    /\ UNCHANGED <<api_key, p, attempt, backoff, last_exc, total_count, all_rows, gets,
                   sleeps, fetched, served, declared, files, filterVars, truncVars, fpc>>

\* the next of the four writes; after the last one main returns 0
Write ==
    /\ pc = "write"
    /\ LET k == Len(files) + 1
       IN  /\ files' = Append(files, [name |-> FILE_NAMES[k], data |-> OutputData(k)])
           /\ IF k = Len(FILE_NAMES) THEN Exit(0) ELSE UNCHANGED <<pc, exit_code>>
    /\ UNCHANGED <<api_key, p, attempt, backoff, last_exc, total_count, all_rows, gets,
                   sleeps, fetched, served, declared, filterVars, truncVars, fpc>>

Next ==
    \/ Start
    \/ GetConnError
    \/ GetServerError
    \/ GetParseError
    \/ GetOtherStatus
    \/ GetOtherException
    \/ \E data \in Responses(p) : GetOk(data)
    \/ Sleep
    \/ Process
    \/ Write

Spec == Init /\ [][Next]_vars

(***************************************************************************)
(* filter_rows applied to every sequence of at most MaxFilterLen records   *)
(* whose area, status and usage-target fields are missing, null, empty,    *)
(* allowed or not allowed.                                                 *)
(***************************************************************************)
Absent == [t |-> "absent", s |-> <<>>, n |-> 0]

AreaValues == {Absent, Str(<<>>), Str(Gangnam), Str(Mapo)}
StatusValues == {Null, Str(<<>>), Str(Jeopsujung), Str(Magam)}
UsageValues == {Absent, Str(<<>>), Str(ForFamilies), Str(Adults)}

\* the dict with the three fields, a field of value Absent left out
MakeRecord(a, st, u) ==
    LET full == [AREANM |-> a, SVCSTATNM |-> st, USETGTINFO |-> u]
    IN  [k \in {f \in DOMAIN full : full[f] # Absent} |-> full[k]]

FilterRecords ==
    {MakeRecord(a, st, u) : a \in AreaValues, st \in StatusValues, u \in UsageValues}

InitFilter ==
    /\ FetcherIdle /\ TruncIdle
    /\ rows_in \in UNION {[1..m -> FilterRecords] : m \in 0..MaxFilterLen}
    /\ v12 = <<>> /\ v123 = <<>>
    /\ fpc = "in"

ApplyFilter ==
    /\ fpc = "in"
    /\ v12' = filter_rows(rows_in).v12
    /\ v123' = filter_rows(rows_in).v123
    /\ fpc' = "out"
    /\ UNCHANGED <<fetcherVars, rows_in, truncVars>>

NextFilter == ApplyFilter

SpecFilter == InitFilter /\ [][NextFilter]_vars

(***************************************************************************)
(* trunc applied to every string of at most MaxStrLen characters and every *)
(* limit from -1 to MaxLimit.                                              *)
(***************************************************************************)
InitTrunc ==
    /\ FetcherIdle /\ FilterIdle
    /\ s_in \in UNION {[1..m -> {"a", "b"}] : m \in 0..MaxStrLen}
    /\ n_in \in -1..MaxLimit
    /\ t_out = <<>>
    /\ fpc = "in"

ApplyTrunc ==
    /\ fpc = "in"
    /\ t_out' = trunc(s_in, n_in)
    /\ fpc' = "out"
    /\ UNCHANGED <<fetcherVars, filterVars, s_in, n_in>>

NextTrunc == ApplyTrunc

SpecTrunc == InitTrunc /\ [][NextTrunc]_vars

(***************************************************************************)
(* Properties.                                                             *)
(***************************************************************************)
Retryable == {"conn", "5xx", "parse"}

Last(q) == q[Len(q)]

\* the concatenation of the sequences of q, in order
RECURSIVE Concat(_)
Concat(q) == IF q = <<>> THEN <<>> ELSE q[1] \o Concat(Tail(q))

\* a is b with some elements left out
RECURSIVE IsSubseq(_, _)
IsSubseq(a, b) ==
    IF a = <<>> THEN TRUE
    ELSE IF b = <<>> THEN FALSE
    ELSE IF a[1] = b[1] THEN IsSubseq(Tail(a), Tail(b))
    ELSE IsSubseq(a, Tail(b))

Fetching == pc \in {"get", "sleep"}
LoopOver == pc \in {"process", "write", "done"} /\ exit_code \notin {2, 3}

\* C1: in every page fetch at most 3 GET attempts are made; every attempt but
\* the last of a fetch ended in a connection/timeout failure, a 5xx or a parse
\* failure; the i-th sleep of a fetch lasts 2^(i-1) time-units (1 before attempt
\* 2, 2 before attempt 3), one sleep stands between two attempts and none
\* follows the last; three such failures end the fetch, and the run, in error.
C1_RetryBound ==
    /\ Len(gets) <= MAX_RETRIES
    /\ \A i \in 1..(Len(gets) - 1) : gets[i] \in Retryable
    /\ Len(sleeps) <= 2
    /\ \A i \in 1..Len(sleeps) : sleeps[i] = i
    /\ pc = "sleep" => Len(sleeps) = Len(gets) - 1 /\ Len(gets) < MAX_RETRIES
    /\ pc = "get" => Len(sleeps) = Len(gets) /\ attempt = Len(gets) + 1
    /\ (gets # <<>> /\ pc # "sleep" /\ pc # "get") => Len(sleeps) = Len(gets) - 1
    /\ (Len(gets) = MAX_RETRIES /\ Last(gets) \in Retryable) =>
          /\ pc = "done" /\ exit_code = 3
          /\ Len(served) = Len(fetched) - 1

C1_Witness ==
    /\ gets = <<"conn", "5xx", "parse">>
    /\ sleeps = <<1, 2>>
    /\ exit_code = 3

\* C2: a run that ends with a non-zero exit code has written no output file;
\* a file is written only once every page fetch of the run has succeeded.
C2_NoPartialOutput ==
    /\ exit_code \notin {-1, 0} => files = <<>>
    /\ files # <<>> => /\ pc \in {"write", "done"}
                       /\ Len(served) = Len(fetched)
                       /\ Last(gets) = "ok"
    /\ exit_code = 0 => [i \in 1..Len(files) |-> files[i].name] = FILE_NAMES

\* a later page fails fatally after rows were accumulated
C2_Witness ==
    /\ exit_code = 3
    /\ Len(fetched) >= 2
    /\ all_rows # <<>>
    /\ files = <<>>

\* C3: a status outside 2xx and 5xx, on whichever attempt, is the last GET of
\* the page fetch, no sleep follows it and the run ends with exit code 3.
C3_NonRetryableAborts ==
    /\ \A i \in 1..(Len(gets) - 1) : gets[i] # "other"
    /\ (gets # <<>> /\ Last(gets) = "other") =>
          /\ pc = "done" /\ exit_code = 3
          /\ Len(sleeps) = Len(gets) - 1
          /\ files = <<>>

C3_Witness ==
    /\ Len(gets) = 2
    /\ Last(gets) = "other"
    /\ exit_code = 3
    /\ Len(fetched) = 2

\* C4: pages are fetched in the order 1, 2, 3, ... without a gap or a repeat,
\* and when page 1 declared T > 0 and every page had rows, the fetch loop ends
\* after exactly ceil(T / PAGE_SIZE) page fetches.
C4_PageCount ==
    /\ fetched = [i \in 1..Len(fetched) |-> i]
    /\ Len(served) >= 1 => total_count = declared
    /\ (LoopOver /\ total_count > 0 /\ \A k \in 1..Len(served) : served[k] # <<>>) =>
          /\ Len(fetched) * PAGE_SIZE >= total_count
          /\ (Len(fetched) - 1) * PAGE_SIZE < total_count
          /\ Len(served) = Len(fetched)

C4_Witness ==
    /\ exit_code = 0
    /\ total_count = 2500
    /\ Len(fetched) = 3
    /\ \A k \in 1..Len(served) : served[k] # <<>>

\* C5: when page 1 declared T > 0 and a page from the second on has no rows,
\* that page is the last one fetched, the fetch loop is over, and the
\* accumulated records are the rows of the pages before it, concatenated in
\* page order with duplicates kept.
C5_EmptyPageStops ==
    total_count > 0 =>
        \A k \in 2..Len(served) :
            served[k] = <<>> =>
                /\ Len(fetched) = k
                /\ ~Fetching
                /\ all_rows = Concat(SubSeq(served, 1, k - 1))

\* page 2 of 3 is empty: the records are those of page 1, in its order
C5_Witness ==
    /\ total_count = 2500
    /\ Len(served) = 2
    /\ served[1] = <<RowFallback, RowOk>>
    /\ served[2] = <<>>
    /\ all_rows = served[1]
    /\ exit_code = 0

\* C6: when page 1's total count is absent, unparseable or <= 0, page 2 is
\* fetched whatever page 1 held, pages are fetched in the order 2, 3, 4, ...,
\* the loop goes on while the pages from the second on have rows, and it is over
\* only once one of them is empty or a page fetch failed fatally.
C6_ProbeUntilEmpty ==
    (Len(served) >= 1 /\ total_count <= 0) =>
        /\ Len(fetched) >= 2
        /\ fetched = [i \in 1..Len(fetched) |-> i]
        /\ \A k \in 2..(Len(served) - 1) : served[k] # <<>>
        /\ Fetching => /\ \A k \in 2..Len(served) : served[k] # <<>>
                       /\ p = Len(served) + 1
        /\ ~Fetching => \/ exit_code = 3
                        \/ Len(served) >= 2 /\ Last(served) = <<>>

\* page 1 has neither a total count nor rows; page 3 is the first empty one after it
C6_Witness ==
    /\ total_count <= 0
    /\ Len(served) = 3
    /\ served[1] = <<>>
    /\ served[2] # <<>>
    /\ served[3] = <<>>
    /\ exit_code = 0

\* C7: the v123 output of filter_rows is a subsequence of its v12 output and
\* v12 is a subsequence of the input: order kept, nothing added or repeated;
\* and v12 holds one record for each input position that passes stage 1, so equal
\* records are not merged.
C7_FilterSubsequence ==
    fpc = "out" =>
        /\ IsSubseq(v123, v12)
        /\ IsSubseq(v12, rows_in)
        /\ Len(v12) = Cardinality({i \in 1..Len(rows_in) :
                          /\ Get(rows_in[i], "AREANM").s \in areas
                          /\ Get(rows_in[i], "SVCSTATNM").s \in statuses})

\* the same passing record twice: both kept in v12 and in v123
C7_Witness ==
    /\ fpc = "out"
    /\ Len(rows_in) = 2
    /\ rows_in[1] = rows_in[2]
    /\ v12 = rows_in
    /\ v123 = rows_in

FieldEmpty(r, k) == Get(r, k) \in {Null, Str(<<>>)}

\* C8 as stated: a record with an empty or missing area, status or
\* usage-target field is in neither output.
C8_Original ==
    fpc = "out" =>
        \A i \in 1..Len(rows_in) :
            (\E k \in {"AREANM", "SVCSTATNM", "USETGTINFO"} : FieldEmpty(rows_in[i], k)) =>
                /\ rows_in[i] \notin Range(v12)
                /\ rows_in[i] \notin Range(v123)

\* C8 as amended: a record with an empty or missing area or status field is in
\* neither output, and a record with an empty or missing usage-target field is
\* not in the v123 output.
C8_EmptyFieldsFiltered ==
    fpc = "out" =>
        \A i \in 1..Len(rows_in) :
            /\ (FieldEmpty(rows_in[i], "AREANM") \/ FieldEmpty(rows_in[i], "SVCSTATNM")) =>
                  /\ rows_in[i] \notin Range(v12)
                  /\ rows_in[i] \notin Range(v123)
            /\ FieldEmpty(rows_in[i], "USETGTINFO") => rows_in[i] \notin Range(v123)

\* a record without usage target passes stage 1 only; one without area passes nothing
C8_Witness ==
    /\ fpc = "out"
    /\ Len(rows_in) = 2
    /\ FieldEmpty(rows_in[1], "USETGTINFO")
    /\ FieldEmpty(rows_in[2], "AREANM")
    /\ ~FieldEmpty(rows_in[2], "SVCSTATNM")
    /\ v12 = <<rows_in[1]>>
    /\ v123 = <<>>

\* C9: no field of a record, whatever its JSON type, makes the run fail: once
\* every page was fetched the run ends with exit code 0.
C9_FieldsNeverFatal ==
    (pc = "done" /\ exit_code \notin {2, 3}) => exit_code = 0

\* C10 as stated: for every s and n, trunc(s, n) is s when len(s) <= n, and
\* else the first n-1 characters of s and an ellipsis, of length n.
C10_Original ==
    fpc = "out" =>
        IF Len(s_in) <= n_in
        THEN t_out = s_in
        ELSE /\ t_out = SubSeq(s_in, 1, n_in - 1) \o <<Ellipsis>>
             /\ Len(t_out) = n_in

\* C10 as amended: for every non-empty s and every n >= 1, trunc(s, n) is s
\* when len(s) <= n, and else the first n-1 characters of s and an ellipsis,
\* of length n.
C10_Truncation ==
    (fpc = "out" /\ s_in # <<>> /\ n_in >= 1) =>
        IF Len(s_in) <= n_in
        THEN t_out = s_in
        ELSE /\ t_out = SubSeq(s_in, 1, n_in - 1) \o <<Ellipsis>>
             /\ Len(t_out) = n_in

C10_Witness ==
    /\ fpc = "out"
    /\ n_in = 3
    /\ Len(s_in) = 4
    /\ t_out = <<s_in[1], s_in[2], Ellipsis>>

====
